---- MODULE Spec2Model ----
(***************************************************************************)
(* DocChat RAG: the React front end (ChatBox, DocumentUploader,            *)
(* TopicBrowser, DocumentList) and the request/response contract of the    *)
(* retrieval pipeline it talks to (ask, upload-doc, list-topics, delete).  *)
(*                                                                         *)
(* Text is a sequence of fragments: a user-typed text or a file name is a  *)
(* sequence of one-character strings, a fixed UI text is one fragment.     *)
(* An optional value (a TypeScript `x?: T`) is <<>> when undefined and     *)
(* <<v>> when defined.                                                     *)
(***************************************************************************)
EXTENDS Integers, Sequences, FiniteSets, TLC

\* ---------------------------------------------------------------- bounds
MaxNow == 2
MaxMessages == 4
MaxDocs == 2
MaxToasts == 2
MaxChunks == 2
MaxListed == 3
MaxDeletes == 2
MaxVersions == 2
MaxTime == 8000
TimeStep == 1000
MaxTimers == 2

VARIABLES
    now,        \* the wall clock read by Date.now()
    index,      \* Vector Index: the index entries in insertion order
    nextDocId,  \* the next generated document id
    deleted,    \* the document ids whose delete_document has completed
    apiResult,  \* the entries the last query or list_topics call returned
    input,      \* ChatBox: useState('')
    messages,   \* ChatBox: useState<ChatMessage[]>([])
    loading,    \* ChatBox: useState(false)
    askCall,    \* ChatBox: the axios.post(ask) promise handleSubmit awaits
    uploading,      \* DocumentUploader: useState(false)
    uploadedDocs,   \* DocumentUploader: useState<UploadedDoc[]>([])
    toasts,         \* DocumentUploader: useState<ToastMessage[]>([])
    uploadCall,     \* DocumentUploader: the axios.post(upload-doc) promise uploadFile awaits
    topics,         \* TopicBrowser: useState<TopicItem[]>([])
    topicsLoading,  \* TopicBrowser: its loading, useState(false)
    error,          \* TopicBrowser: useState<string | null>(null)
    page,           \* TopicBrowser: useState(1)
    hasMore,        \* TopicBrowser: useState(false)
    topicsCall,     \* TopicBrowser: the fetch(list-topics) promise fetchTopics awaits
    catalogStable,  \* page 1 was served and the index has not changed since
    documents,         \* DocumentList: useState<Document[]>([])
    documentsLoading,  \* DocumentList: its loading, useState(true)
    fetchCall,         \* DocumentList: the axios.get promise fetchDocuments awaits
    deleteCalls,       \* DocumentList: the axios.delete promises in flight
    toastTimers,     \* Toast: the time left on the setTimeout of each displayed toast
    legacyFile,      \* DocumentUpload: its file, useState<File | null>(null)
    legacyUploading, \* DocumentUpload: its uploading, useState(false)
    legacyMessage,   \* DocumentUpload: its message, useState('')
    legacyCall,      \* DocumentUpload: the axios.post promise handleUpload awaits
    messageTimers,   \* DocumentUpload: the time left on each pending setTimeout
    job,        \* ingestion pipeline: the ingestion in progress, or its outcome
    batches,    \* Vector Index: the batches committed so far
    retrieval   \* Retriever: the outcome of the last question retrieved

backendVars == <<index, nextDocId, deleted, apiResult, catalogStable>>
chatVars == <<input, messages, loading, askCall>>
uploaderVars == <<uploading, uploadedDocs, toasts, uploadCall, toastTimers>>
browserVars == <<topics, topicsLoading, error, page, hasMore, topicsCall>>
listVars == <<documents, documentsLoading, fetchCall, deleteCalls>>
pipelineVars == <<job, batches, retrieval>>
legacyVars == <<legacyFile, legacyUploading, legacyMessage, legacyCall, messageTimers>>
vars == <<now, backendVars, chatVars, uploaderVars, browserVars, listVars, pipelineVars,
          legacyVars>>

\* What a step of one component leaves alone.
outsideChat == <<now, backendVars, uploaderVars, browserVars, listVars, pipelineVars, legacyVars>>
outsideUploader == <<chatVars, browserVars, listVars, pipelineVars, legacyVars, deleted, apiResult>>
outsideBrowser == <<now, chatVars, uploaderVars, listVars, pipelineVars, legacyVars>>
outsideList == <<now, backendVars, chatVars, uploaderVars, browserVars, pipelineVars, legacyVars>>
outsideBackend == <<now, chatVars, uploaderVars, listVars, pipelineVars, legacyVars>>
outsidePipeline == <<now, chatVars, uploaderVars, browserVars, listVars, legacyVars>>
outsideLegacy == <<backendVars, chatVars, uploaderVars, browserVars, listVars, pipelineVars>>

\* ------------------------------------------------------------ text helpers
Undefined == <<>>

Some(v) == <<v>>

IsWhitespace(c) == c \in {" ", "\t"}

RECURSIVE TrimStart(_)
TrimStart(s) ==
    IF s = <<>> THEN <<>>
    ELSE IF IsWhitespace(Head(s)) THEN TrimStart(Tail(s)) ELSE s

RECURSIVE TrimEnd(_)
TrimEnd(s) ==
    IF s = <<>> THEN <<>>
    ELSE IF IsWhitespace(s[Len(s)]) THEN TrimEnd(SubSeq(s, 1, Len(s) - 1)) ELSE s

\* String.prototype.trim
Trim(s) == TrimEnd(TrimStart(s))

\* Array.prototype.filter with the predicate given as the set of kept values
SelectSeqBy(s, keep) == SelectSeq(s, LAMBDA x : x \in keep)

Range(s) == {s[i] : i \in 1..Len(s)}

Last(s) == s[Len(s)]

\* ---------------------------------------------------------------- clock
Tick ==
    /\ now < MaxNow
    /\ now' = now + 1
    /\ UNCHANGED <<backendVars, chatVars, uploaderVars, browserVars, listVars, pipelineVars,
                   legacyVars>>

\* ------------------------------------------------- pipeline: the ask contract
\* An index entry of chunk c of document d; labelled chunks carry the topic
\* label "Topic 1-c".
Entry(d, c, labelled) ==
    [doc |-> d, chunk |-> c, filename |-> <<"doc", d>>,
     topic |-> IF labelled THEN Some(<<1, c>>) ELSE Undefined,
     version |-> 1]

MaxScore == 100

\* One source of an ask response, for a retrieved entry and its score.
SourceOf(e, score) ==
    [filename |-> e.filename, chunk_id |-> e.chunk, score |-> score,
     preview |-> <<e.doc, e.chunk>>]

NoRelevantAnswer == <<"No relevant content found">>

GroundedAnswer == <<"grounded answer">>

\* Retrieval top-k: the single best chunk (MAX_RESULTS=1).
TopK == 1

Scores == {60, MaxScore}

\* What the Retriever may return on this index: nothing above the similarity
\* floor, or up to TopK entries, each with its score.
RetrievedSources(idx) ==
    {<<>>} \cup {<<SourceOf(idx[i], sc)>> : i \in 1..Len(idx), sc \in Scores}

\* ask(question) -> {answer, sources[]}: an empty retrieval is answered by the
\* explicit no-relevant-content text with no sources.
AskResult(srcs) ==
    [answer |-> IF srcs = <<>> THEN NoRelevantAnswer ELSE GroundedAnswer,
     sources |-> srcs]

\* The ways the ask request can be rejected, as axios reports them:
\* isAxiosError, response?.status (0: no response) and code.
AskFailures ==
    { [axios |-> TRUE, status |-> 500, code |-> "ERR_BAD_RESPONSE"],
      [axios |-> TRUE, status |-> 404, code |-> "ERR_BAD_REQUEST"],
      [axios |-> TRUE, status |-> 0, code |-> "ECONNREFUSED"],
      [axios |-> TRUE, status |-> 0, code |-> "ERR_NETWORK"],
      [axios |-> FALSE, status |-> 0, code |-> ""] }

\* ---------------------------------------------------------------- ChatBox
ServerErrorText ==
    <<"Sorry, I encountered an error while processing your question. Please make sure the backend is running and configured properly.">>

ConnectErrorText ==
    <<"Cannot connect to the backend server. Please make sure it is running on localhost:8000.">>

OtherErrorText == <<"Something went wrong. Please try again later.">>

ErrorTexts == {ServerErrorText, ConnectErrorText, OtherErrorText}

\* What the user can type into the input field.
InputTexts == {<<>>, <<" ">>, <<"q">>, <<" ", "q", " ">>}

NoCall == [state |-> "idle"]

ChatMessage(type, content, sources) ==
    [id |-> now, type |-> type, content |-> content, sources |-> sources]

\* An addMessage that keeps only the new message.
addMessageReplacing(prev, type, content, sources) ==
    <<ChatMessage(type, content, sources)>>

\* addMessage: setMessages(prev => [...prev, newMessage])
addMessage(prev, type, content, sources) ==
    Append(prev, ChatMessage(type, content, sources))

\* onChange of the input field (disabled while loading)
SetInput(text) ==
    /\ ~loading
    /\ input' = text
    /\ UNCHANGED <<outsideChat, messages, loading, askCall>>

\* A handleSubmit whose guard tests the input without trimming it.
HandleSubmitUntrimmedGuard ==
    /\ Len(messages) + 2 <= MaxMessages
    /\ IF input = <<>> \/ loading
       THEN UNCHANGED <<input, messages, loading, askCall>>
       ELSE /\ input' = <<>>
            /\ messages' = addMessage(messages, "user", Trim(input), Undefined)
            /\ loading' = TRUE
            /\ askCall' = [state |-> "pending", question |-> Trim(input)]
    /\ UNCHANGED outsideChat

\* handleSubmit up to its await
HandleSubmit ==
    /\ Len(messages) + 2 <= MaxMessages
    /\ IF Trim(input) = <<>> \/ loading
       THEN UNCHANGED <<input, messages, loading, askCall>>
       ELSE /\ input' = <<>>
            /\ messages' = addMessage(messages, "user", Trim(input), Undefined)
            /\ loading' = TRUE
            /\ askCall' = [state |-> "pending", question |-> Trim(input)]
    /\ UNCHANGED outsideChat

\* The ask endpoint answers the pending request from the index.
AskResolve ==
    /\ askCall.state = "pending"
    /\ \E srcs \in RetrievedSources(index) :
          askCall' = [state |-> "resolved", data |-> AskResult(srcs)]
    /\ UNCHANGED <<outsideChat, input, messages, loading>>

\* The ask request fails: an HTTP error status, no connection, anything else.
AskReject ==
    /\ askCall.state = "pending"
    /\ \E err \in AskFailures : askCall' = [state |-> "rejected", err |-> err]
    /\ UNCHANGED <<outsideChat, input, messages, loading>>

\* A catch block that shows the raw error code instead of a fixed text.
AskErrorTextRaw(err) ==
    IF err.axios /\ err.status = 500 THEN ServerErrorText
    ELSE IF err.axios /\ err.code = "ECONNREFUSED" THEN ConnectErrorText
    ELSE <<err.code>>

\* The message the catch block of handleSubmit shows for a rejection.
AskErrorText(err) ==
    IF err.axios /\ err.status = 500 THEN ServerErrorText
    ELSE IF err.axios /\ err.code = "ECONNREFUSED" THEN ConnectErrorText
    ELSE OtherErrorText

\* A handleSubmit that takes an answer without sources for a failure.
AskOutcomeMessagesEmptyIsError(prev, call) ==
    IF call.state = "resolved" /\ Len(call.data.sources) > 0
    THEN addMessage(prev, "ai", call.data.answer, Some(call.data.sources))
    ELSE addMessage(prev, "ai", OtherErrorText, Undefined)

\* A handleSubmit whose catch block adds no message.
AskOutcomeMessagesSilentFailure(prev, call) ==
    IF call.state = "resolved"
    THEN addMessage(prev, "ai", call.data.answer, Some(call.data.sources))
    ELSE prev

\* The ai message handleSubmit appends for a settled call.
AskOutcomeMessages(prev, call) ==
    IF call.state = "resolved"
    THEN addMessage(prev, "ai", call.data.answer, Some(call.data.sources))
    ELSE addMessage(prev, "ai", AskErrorText(call.err), Undefined)

\* A handleSubmit whose catch block sends the question again.
HandleSubmitSettledRetrying ==
    /\ askCall.state \in {"resolved", "rejected"}
    /\ messages' = AskOutcomeMessages(messages, askCall)
    /\ IF askCall.state = "rejected"
       THEN /\ askCall' = [state |-> "pending", question |-> Last(messages).content]
            /\ UNCHANGED loading
       ELSE /\ askCall' = NoCall
            /\ loading' = FALSE
    /\ UNCHANGED <<outsideChat, input>>

\* handleSubmit after its await: try / catch / finally
HandleSubmitSettled ==
    /\ askCall.state \in {"resolved", "rejected"}
    /\ messages' = AskOutcomeMessages(messages, askCall)
    /\ loading' = FALSE
    /\ askCall' = NoCall
    /\ UNCHANGED <<outsideChat, input>>

\* The sources block is rendered for this message.
ShowsSources(m) ==
    /\ m.type = "ai"
    /\ m.sources # Undefined
    /\ Len(m.sources[1]) > 0

\* ------------------------------------------------ pipeline: the ingest contract
\* The index entries of a document whose chunks 1..n were produced and whose
\* chunks in `failed` could not be embedded, in chunk order.
IngestEntries(d, n, failed, labelled) ==
    LET kept == SelectSeqBy([c \in 1..n |-> c], (1..n) \ failed)
    IN  [i \in 1..Len(kept) |-> Entry(d, kept[i], labelled)]

\* The sets of failing chunks tried for a document of n chunks.
FailedChoices(n) == {{}} \cup (IF n >= 1 THEN {{n}, 1..n} ELSE {})

\* ingest_document -> {document_id, chunks_indexed, chunks_failed}
IngestResult(d, filename, n, failed) ==
    [document_id |-> d, filename |-> filename,
     chunks_stored |-> n - Cardinality(failed),
     chunks_failed |-> Cardinality(failed)]

EmptyDocumentDetail == <<"EmptyDocument">>

\* ------------------------------------------------------- DocumentUploader
TypeErrorText == <<"Please select a PDF or TXT file">>

SizeErrorText == <<"File size must be less than 10MB">>

InvalidFormatText == <<"Invalid file format">>

UploadServerErrorText ==
    <<"Server error. Please check if OpenAI API key is configured.">>

UploadConnectErrorText ==
    <<"Cannot connect to backend. Make sure it's running on localhost:8000">>

UploadFailedText == <<"Upload failed. Please try again.">>

allowedTypes == {"application/pdf", "text/plain"}

allowedExtensions == {<<".", "p", "d", "f">>, <<".", "t", "x", "t">>}

maxSize == 10 * 1024 * 1024

UpperCase == <<"A", "C", "D", "F", "I", "O", "P", "T", "X">>

LowerCase == <<"a", "c", "d", "f", "i", "o", "p", "t", "x">>

\* String.prototype.toLowerCase, one character
LowerChar(c) ==
    IF \E i \in 1..Len(UpperCase) : UpperCase[i] = c
    THEN LowerCase[CHOOSE i \in 1..Len(UpperCase) : UpperCase[i] = c]
    ELSE c

toLowerCase(s) == [i \in 1..Len(s) |-> LowerChar(s[i])]

\* String.prototype.lastIndexOf: the 0-based position of the last c, or -1
lastIndexOf(s, c) ==
    LET at == {i \in 1..Len(s) : s[i] = c}
    IN  IF at = {} THEN -1 ELSE (CHOOSE i \in at : \A j \in at : j <= i) - 1

\* String.prototype.substring(start): a negative start counts as 0
substring(s, start) ==
    LET from == IF start < 0 THEN 0 ELSE start
    IN  SubSeq(s, from + 1, Len(s))

fileExtension(file) ==
    substring(toLowerCase(file.name), lastIndexOf(file.name, "."))

\* A type validation that looks for ".pdf" or ".txt" anywhere in the name.
TypeAcceptedAnywhere(file) ==
    \/ file.type \in allowedTypes
    \/ \E i \in 1..(Len(file.name) - 3) :
          SubSeq(toLowerCase(file.name), i, i + 3) \in allowedExtensions

\* handleFileSelect's type validation lets the file through
TypeAccepted(file) ==
    ~(file.type \notin allowedTypes /\ fileExtension(file) \notin allowedExtensions)

\* A size validation with >= for >.
SizeAcceptedBelow(file) == ~(file.size >= maxSize)

\* handleFileSelect's size validation lets the file through
SizeAccepted(file) == ~(file.size > maxSize)

FileNames ==
    { <<"a", ".", "p", "d", "f">>, <<"A", ".", "T", "X", "T">>,
      <<"n", ".", "m", "d">>, <<"p", "d", "f">>,
      <<"a", ".", "p", "d", "f", ".", "m", "d">> }

FileTypes == {"application/pdf", "text/plain", "", "image/png"}

FileSizes == {1, maxSize, maxSize + 1}

\* The files the user can pick.
Files == [name : FileNames, type : FileTypes, size : FileSizes]

\* addToast: setToasts(prev => [...prev, { id, message, type }])
addToast(prev, message, type) ==
    Append(prev, [id |-> now, message |-> message, type |-> type])

\* removeToast: setToasts(prev => prev.filter(toast => toast.id !== id))
removeToast(prev, id) ==
    SelectSeqBy(prev, {t \in Range(prev) : t.id # id})

\* Toast's duration = 4000
duration == 4000

\* Toast's effect, as it runs after a render of DocumentUploader: the toast
\* list passes a new onClose to every Toast, so each displayed toast clears
\* its timer and starts one of the full duration.
ToastEffect(list) == [i \in 1..Len(list) |-> duration]

\* handleFileSelect, and uploadFile up to its await; the file input is
\* disabled while uploading. `files` is e.target.files.
HandleFileSelect(files) ==
    /\ ~uploading
    /\ Len(toasts) < MaxToasts
    /\ IF Len(files) = 0
       THEN UNCHANGED <<uploading, toasts, uploadCall>>
       ELSE LET file == files[1] IN
            IF ~TypeAccepted(file)
            THEN /\ toasts' = addToast(toasts, TypeErrorText, "error")
                 /\ UNCHANGED <<uploading, uploadCall>>
            ELSE IF ~SizeAccepted(file)
            THEN /\ toasts' = addToast(toasts, SizeErrorText, "error")
                 /\ UNCHANGED <<uploading, uploadCall>>
            ELSE /\ uploading' = TRUE
                 /\ uploadCall' = [state |-> "pending", file |-> file]
                 /\ UNCHANGED toasts
    /\ toastTimers' = IF Len(files) = 0 THEN toastTimers ELSE ToastEffect(toasts')
    /\ UNCHANGED <<now, index, nextDocId, catalogStable, uploadedDocs, outsideUploader>>

\* The upload-doc endpoint ingests the pending file: n chunks are produced,
\* the chunks in `failed` cannot be embedded.
ServeUpload(n, failed, labelled) ==
    /\ uploadCall.state = "pending"
    /\ nextDocId <= MaxDocs
    /\ IF n = 0
       THEN /\ uploadCall' = [state |-> "rejected", file |-> uploadCall.file,
                              err |-> [axios |-> TRUE, status |-> 400, code |-> "ERR_BAD_REQUEST",
                                       detail |-> Some(EmptyDocumentDetail)]]
            /\ UNCHANGED <<index, nextDocId, catalogStable>>
       ELSE IF failed = 1..n
       THEN /\ uploadCall' = [state |-> "rejected", file |-> uploadCall.file,
                              err |-> [axios |-> TRUE, status |-> 500, code |-> "ERR_BAD_RESPONSE",
                                       detail |-> Undefined]]
            /\ UNCHANGED <<index, nextDocId, catalogStable>>
       ELSE /\ index' = index \o IngestEntries(nextDocId, n, failed, labelled)
            /\ nextDocId' = nextDocId + 1
            /\ catalogStable' = FALSE
            /\ uploadCall' = [state |-> "resolved", file |-> uploadCall.file,
                              data |-> IngestResult(nextDocId, uploadCall.file.name, n, failed)]
    /\ UNCHANGED <<now, uploading, uploadedDocs, toasts, toastTimers, outsideUploader>>

\* The other ways the upload request can be rejected, as axios reports them.
UploadFailures ==
    { [axios |-> TRUE, status |-> 400, code |-> "ERR_BAD_REQUEST", detail |-> Undefined],
      [axios |-> TRUE, status |-> 413, code |-> "ERR_BAD_REQUEST", detail |-> Undefined],
      [axios |-> TRUE, status |-> 0, code |-> "ECONNREFUSED", detail |-> Undefined],
      [axios |-> TRUE, status |-> 0, code |-> "ERR_NETWORK", detail |-> Undefined],
      [axios |-> FALSE, status |-> 0, code |-> "", detail |-> Undefined] }

UploadReject(err) ==
    /\ uploadCall.state = "pending"
    /\ uploadCall' = [state |-> "rejected", file |-> uploadCall.file, err |-> err]
    /\ UNCHANGED <<now, index, nextDocId, catalogStable, uploading, uploadedDocs, toasts,
                   toastTimers, outsideUploader>>

\* The toast text of uploadFile's success path
UploadSuccessText(file, data) ==
    <<"Successfully uploaded \"">> \o file.name
        \o <<"\" (", ToString(data.chunks_stored), " chunks)">>

\* The toast text of uploadFile's catch block
UploadErrorText(err) ==
    IF err.axios
    THEN IF err.status = 400
         THEN (IF err.detail # Undefined /\ err.detail[1] # <<>>
               THEN err.detail[1] ELSE InvalidFormatText)
         ELSE IF err.status = 500 THEN UploadServerErrorText
         ELSE IF err.code = "ECONNREFUSED" THEN UploadConnectErrorText
         ELSE UploadFailedText
    ELSE UploadFailedText

\* A catch block with no toast outside its 400, 500 and ECONNREFUSED branches.
UploadOutcomeToastsNoElse(prev, call) ==
    IF call.state = "resolved"
    THEN addToast(prev, UploadSuccessText(call.file, call.data), "success")
    ELSE IF call.err.axios /\ (call.err.status \in {400, 500} \/ call.err.code = "ECONNREFUSED")
    THEN addToast(prev, UploadErrorText(call.err), "error")
    ELSE prev

\* The toast uploadFile adds for a settled call.
UploadOutcomeToasts(prev, call) ==
    IF call.state = "resolved"
    THEN addToast(prev, UploadSuccessText(call.file, call.data), "success")
    ELSE addToast(prev, UploadErrorText(call.err), "error")

\* An uploadFile that records the document whether or not the request succeeded.
UploadOutcomeDocsAlways(prev, call) ==
    Append(prev, [id |-> 0, filename |-> call.file.name, chunks |-> 0, timestamp |-> now])

\* The uploadedDocs of uploadFile for a settled call.
UploadOutcomeDocs(prev, call) ==
    IF call.state = "resolved"
    THEN Append(prev, [id |-> call.data.document_id, filename |-> call.data.filename,
                       chunks |-> call.data.chunks_stored, timestamp |-> now])
    ELSE prev

\* uploadFile after its await: try / catch / finally
UploadFileSettled ==
    /\ uploadCall.state \in {"resolved", "rejected"}
    /\ uploadedDocs' = UploadOutcomeDocs(uploadedDocs, uploadCall)
    /\ toasts' = UploadOutcomeToasts(toasts, uploadCall)
    /\ uploading' = FALSE
    /\ uploadCall' = NoCall
    /\ toastTimers' = ToastEffect(toasts')
    /\ UNCHANGED <<now, index, nextDocId, catalogStable, outsideUploader>>

\* The timers of the toasts that stay when the toasts of this id are removed.
RemainingTimers(id) ==
    LET kept == SelectSeq([i \in 1..Len(toasts) |-> i], LAMBDA i : toasts[i].id # id)
    IN  [j \in 1..Len(kept) |-> toastTimers[kept[j]]]

\* A toast's onClose: its timer or its close button. The render that follows
\* restarts the timers of the toasts that stay; a timer that is already due
\* fires before that render or is restarted by it.
CloseToast(id) ==
    /\ \E t \in Range(toasts) : t.id = id
    /\ toasts' = removeToast(toasts, id)
    /\ toastTimers' \in
          { ToastEffect(toasts'),
            [j \in 1..Len(toasts') |->
                IF RemainingTimers(id)[j] = 0 THEN 0 ELSE duration] }
    /\ UNCHANGED <<now, index, nextDocId, catalogStable, uploading, uploadedDocs, uploadCall,
                   outsideUploader>>

\* ------------------------------------- pipeline: list_topics, delete, query
Min(a, b) == IF a < b THEN a ELSE b

\* The catalog item of an index entry: its metadata and a preview of its text.
TopicItemOf(e) ==
    [filename |-> e.filename, topic |-> e.topic, preview |-> <<e.doc, e.chunk>>]

\* The unpaginated catalog: every entry, in insertion order.
FullListing(idx) == [i \in 1..Len(idx) |-> TopicItemOf(idx[i])]

\* list_topics(page, limit) -> {topics[], total, page, limit, has_more}
ListTopics(idx, pageNum, limit) ==
    LET offset == (pageNum - 1) * limit
        total == Len(idx)
    IN  [topics |-> SubSeq(FullListing(idx), offset + 1, Min(offset + limit, total)),
         total |-> total, page |-> pageNum, limit |-> limit,
         has_more |-> offset + limit < total]

\* A delete that removes only the document's first entry.
DeleteFirstEntryOnly(idx, d) ==
    LET at == {i \in 1..Len(idx) : idx[i].doc = d}
    IN  IF at = {} THEN idx
        ELSE LET k == CHOOSE i \in at : \A j \in at : i <= j
             IN  SubSeq(idx, 1, k - 1) \o SubSeq(idx, k + 1, Len(idx))

\* The index after delete(document_id): every entry of the document removed.
DeleteFromIndex(idx, d) ==
    SelectSeqBy(idx, {e \in Range(idx) : e.doc # d})

NoResult == [op |-> "none"]

\* ingest_document called through the API: n chunks, those in `failed` excluded.
IngestDocument(n, failed, labelled) ==
    /\ nextDocId <= MaxDocs
    /\ n > 0
    /\ failed # 1..n
    /\ index' = index \o IngestEntries(nextDocId, n, failed, labelled)
    /\ nextDocId' = nextDocId + 1
    /\ catalogStable' = FALSE
    /\ UNCHANGED <<deleted, apiResult, outsideBackend, browserVars>>

\* delete_document(d) called through the API, run to completion.
DeleteDocument(d) ==
    /\ d \in 0..(nextDocId - 1)
    /\ d \notin deleted
    /\ index' = DeleteFromIndex(index, d)
    /\ deleted' = deleted \cup {d}
    /\ catalogStable' = FALSE
    /\ UNCHANGED <<nextDocId, apiResult, outsideBackend, browserVars>>

\* ask called through the API: the sources the query returns.
ApiAsk ==
    /\ \E srcs \in RetrievedSources(index) :
          apiResult' = [op |-> "ask", items |-> AskResult(srcs).sources,
                        deletedBefore |-> deleted]
    /\ UNCHANGED <<index, nextDocId, deleted, catalogStable, outsideBackend, browserVars>>

\* list_topics(page, limit) called through the API: the page it returns.
ApiListTopics(pageNum, limit) ==
    /\ apiResult' = [op |-> "list", items |-> ListTopics(index, pageNum, limit).topics,
                     deletedBefore |-> deleted]
    /\ UNCHANGED <<index, nextDocId, deleted, catalogStable, outsideBackend, browserVars>>

\* ------------------------------------------- pipeline: ingestion, step by step
\* Bounded retry policy of the Embedder: up to 3 attempts per chunk.
MaxAttempts == 3

IdleJob == [state |-> "idle"]

NoRetrieval == [state |-> "NONE"]

\* The batches an index holds: per document and version, its chunk ids.
BatchesOf(idx) ==
    {[doc |-> e.doc, version |-> e.version,
      chunks |-> {f.chunk : f \in {g \in Range(idx) : g.doc = e.doc /\ g.version = e.version}}]
        : e \in Range(idx)}

\* The newest version of document d that was committed, 0 when there is none.
LatestVersion(d) ==
    LET vs == {b.version : b \in {x \in batches : x.doc = d}}
    IN  IF vs = {} THEN 0 ELSE CHOOSE v \in vs : \A w \in vs : w <= v

\* The entry of chunk c of version v of document d.
EntryOfVersion(d, c, labelled, v) == [Entry(d, c, labelled) EXCEPT !.version = v]

\* ingest_document starts: a new document, or an updated version of a
\* document the index holds; n chunks are produced by the Chunker.
StartIngest(d, n, labelled) ==
    /\ job.state \in {"idle", "done", "failed"}
    /\ d <= MaxDocs
    /\ LatestVersion(d) < MaxVersions
    /\ d \notin deleted
    /\ \/ d = nextDocId
       \/ d < nextDocId /\ \E i \in 1..Len(index) : index[i].doc = d
    /\ nextDocId' = IF d = nextDocId THEN nextDocId + 1 ELSE nextDocId
    /\ job' = IF n = 0
              THEN [state |-> "failed", doc |-> d, error |-> "EmptyDocument"]
              ELSE [state |-> "embedding", doc |-> d, version |-> LatestVersion(d) + 1,
                    n |-> n, labelled |-> labelled, attempts |-> [c \in 1..n |-> 0],
                    embedded |-> {}, failed |-> {}, staged |-> <<>>]
    /\ UNCHANGED <<index, deleted, apiResult, catalogStable, batches, retrieval, outsidePipeline>>

\* A retry policy that allows one attempt more.
RetryAllowedOnceMore(attempts) == attempts <= MaxAttempts

\* The retry policy: another attempt is made while fewer than MaxAttempts were.
RetryAllowed(attempts) == attempts < MaxAttempts

\* One embedding attempt for chunk c of the document being ingested; chunks
\* are embedded independently, in any order.
EmbedAttempt(c, ok) ==
    /\ job.state = "embedding"
    /\ c \in (1..job.n) \ (job.embedded \cup job.failed)
    /\ RetryAllowed(job.attempts[c])
    /\ job' = [job EXCEPT
                 !.attempts[c] = @ + 1,
                 !.embedded = IF ok THEN @ \cup {c} ELSE @,
                 !.failed = IF ~ok /\ ~RetryAllowed(job.attempts[c] + 1) THEN @ \cup {c} ELSE @]
    /\ UNCHANGED <<backendVars, batches, retrieval, outsidePipeline>>

\* Every chunk is embedded or excluded: the batch is prepared, or the whole
\* ingestion fails because every chunk failed.
EmbeddingDone ==
    /\ job.state = "embedding"
    /\ job.embedded \cup job.failed = 1..job.n
    /\ job' = IF job.embedded = {}
              THEN [state |-> "failed", doc |-> job.doc, error |-> "EmbeddingServiceError"]
              ELSE [job EXCEPT !.state = "upserting"]
    /\ UNCHANGED <<backendVars, batches, retrieval, outsidePipeline>>

\* The embedded chunks that are not written to the batch yet.
Unstaged == job.embedded \ {job.staged[i].chunk : i \in 1..Len(job.staged)}

\* An upsert that writes each entry straight into the index.
StageEntryInPlace ==
    /\ job.state = "upserting"
    /\ Unstaged # {}
    /\ LET c == CHOOSE x \in Unstaged : \A y \in Unstaged : x <= y
           e == EntryOfVersion(job.doc, c, job.labelled, job.version)
       IN  /\ job' = [job EXCEPT !.staged = Append(@, e)]
           /\ index' = Append(index, e)
    /\ UNCHANGED <<nextDocId, deleted, apiResult, catalogStable, batches, retrieval,
                   outsidePipeline>>

\* upsert(entries), writing: the next entry of the batch is written where no
\* reader sees it.
StageEntry ==
    /\ job.state = "upserting"
    /\ Unstaged # {}
    /\ LET c == CHOOSE x \in Unstaged : \A y \in Unstaged : x <= y
       IN  job' = [job EXCEPT !.staged =
                      Append(@, EntryOfVersion(job.doc, c, job.labelled, job.version))]
    /\ UNCHANGED <<backendVars, batches, retrieval, outsidePipeline>>

\* An upsert that replaces entries by chunk id and leaves the others alone.
UpsertByChunkId(idx, d, entries) ==
    SelectSeq(idx, LAMBDA e : ~(e.doc = d /\ \E i \in 1..Len(entries) : entries[i].chunk = e.chunk))
        \o entries

\* The index after the batch of document d is committed: the entries of the
\* document's earlier version are removed, the new ones are created.
ReplaceBatch(idx, d, entries) == DeleteFromIndex(idx, d) \o entries

\* upsert(entries), committing: the whole batch becomes visible at once, and
\* ingest_document returns {document_id, chunks_indexed, chunks_failed}.
CommitBatch ==
    /\ job.state = "upserting"
    /\ Unstaged = {}
    /\ index' = ReplaceBatch(index, job.doc, job.staged)
    /\ batches' = batches \cup
          {[doc |-> job.doc, version |-> job.version, chunks |-> job.embedded]}
    /\ catalogStable' = FALSE
    /\ job' = [state |-> "done", doc |-> job.doc, version |-> job.version, n |-> job.n,
               attempts |-> job.attempts, embedded |-> job.embedded, failed |-> job.failed,
               result |-> [document_id |-> job.doc,
                           chunks_indexed |-> Cardinality(job.embedded),
                           chunks_failed |-> Cardinality(job.failed)]]
    /\ UNCHANGED <<nextDocId, deleted, apiResult, retrieval, outsidePipeline>>

\* ------------------------------------------------- pipeline: the Retriever
Digits == <<"0", "1", "2", "3", "4", "5", "6", "7", "8", "9">>

IsDigit(c) == \E i \in 1..Len(Digits) : Digits[i] = c

DigitValue(c) == (CHOOSE i \in 1..Len(Digits) : Digits[i] = c) - 1

\* The number of digits the text starts with.
RECURSIVE LeadingDigits(_)
LeadingDigits(s) ==
    IF s = <<>> \/ ~IsDigit(Head(s)) THEN 0 ELSE 1 + LeadingDigits(Tail(s))

\* The number a run of digits denotes.
RECURSIVE ParseInt(_)
ParseInt(s) ==
    IF s = <<>> THEN 0
    ELSE 10 * ParseInt(SubSeq(s, 1, Len(s) - 1)) + DigitValue(s[Len(s)])

TopicWord == <<"t", "o", "p", "i", "c", " ">>

\* The topic label <<major, minor>> of a text that starts, after `word`, with
\* <major>-<minor>; Undefined when it does not.
TopicAfterWord(s) ==
    IF Len(s) < Len(TopicWord) \/ SubSeq(s, 1, Len(TopicWord)) # TopicWord THEN Undefined
    ELSE LET rest == SubSeq(s, Len(TopicWord) + 1, Len(s))
             a == LeadingDigits(rest)
         IN  IF a = 0 \/ Len(rest) < a + 2 \/ rest[a + 1] # "-" THEN Undefined
             ELSE LET minor == SubSeq(rest, a + 2, Len(rest))
                      b == LeadingDigits(minor)
                  IN  IF b = 0 THEN Undefined
                      ELSE Some(<<ParseInt(SubSeq(rest, 1, a)), ParseInt(SubSeq(minor, 1, b))>>)

\* A pattern match that is case-sensitive.
MatchTopicCaseSensitive(question) == TopicAfterWord(question)

\* The topic-marker pattern `Topic <major>-<minor>[: <title>]`, matched
\* case-insensitively at the start of the question.
MatchTopic(question) == TopicAfterWord(toLowerCase(question))

\* The entries of the set, ranked by document then chunk index.
RECURSIVE RankByDocChunk(_)
RankByDocChunk(S) ==
    IF S = {} THEN <<>>
    ELSE LET first == CHOOSE e \in S : \A f \in S :
                          e.doc < f.doc \/ (e.doc = f.doc /\ e.chunk <= f.chunk)
         IN  <<first>> \o RankByDocChunk(S \ {first})

\* EXACT_LOOKUP: every entry whose topic label is the asked one, each with the
\* maximal score.
ExactMatches(idx, topic) ==
    LET ranked == RankByDocChunk({e \in Range(idx) : e.topic = Some(topic)})
    IN  [i \in 1..Len(ranked) |-> [entry |-> ranked[i], score |-> MaxScore]]

\* SEMANTIC_SEARCH: nothing above the similarity floor, or up to TopK entries.
SemanticMatches(idx) ==
    {<<>>} \cup {<<[entry |-> idx[i], score |-> sc]>> : i \in 1..Len(idx), sc \in Scores}

\* The questions asked.
Questions ==
    { <<"T", "o", "p", "i", "c", " ", "1", "-", "1">>,
      <<"t", "o", "p", "i", "c", " ", "1", "-", "2">>,
      <<"T", "O", "P", "I", "C", " ", "1", "-", "3", ":", " ", "x">>,
      <<"T", "o", "p", "i", "c", " ", "x">>,
      <<"a", " ", "t", "o", "p", "i", "c", "?">> }

\* The Retriever's state machine for one question.
Retrieve(question) ==
    /\ LET topic == MatchTopic(question)
       IN  IF topic # Undefined
           THEN retrieval' = [state |-> "EXACT_LOOKUP", question |-> question, embedCalls |-> 0,
                              results |-> ExactMatches(index, topic[1])]
           ELSE \E found \in SemanticMatches(index) :
                   retrieval' = [state |-> "SEMANTIC_SEARCH", question |-> question,
                                 embedCalls |-> 1, results |-> found]
    /\ UNCHANGED <<backendVars, job, batches, outsidePipeline>>

\* ----------------------------------------------------------- TopicBrowser
\* fetch(`.../list-topics?page=${pageNum}&limit=50`)
Limit == 50

HttpErrorText == <<"Failed to fetch topics">>

LoadErrorText == <<"Failed to load topics">>

\* What fetch() or response.json() can throw: an Error with its message, or
\* a value that is no Error.
TopicsFailures ==
    { [isError |-> TRUE, message |-> <<"Failed to fetch">>],
      [isError |-> FALSE, message |-> <<>>] }

Mounting == [state |-> "mount"]

\* fetchTopics up to its await
FetchTopicsStart(pageNum) ==
    /\ topicsLoading' = TRUE
    /\ error' = Undefined
    /\ topicsCall' = [state |-> "pending", pageNum |-> pageNum]
    /\ UNCHANGED <<topics, page, hasMore>>

\* useEffect(() => { fetchTopics(1) }, [])
MountTopicBrowser ==
    /\ topicsCall = Mounting
    /\ FetchTopicsStart(1)
    /\ UNCHANGED <<backendVars, outsideBrowser>>

\* loadMore
LoadMore ==
    /\ topicsCall # Mounting
    /\ IF hasMore /\ ~topicsLoading
       THEN FetchTopicsStart(page + 1)
       ELSE UNCHANGED browserVars
    /\ UNCHANGED <<backendVars, outsideBrowser>>

\* The list-topics endpoint answers the pending request from the index.
ServeListTopics ==
    /\ topicsCall.state = "pending"
    /\ topicsCall' = [state |-> "resolved", pageNum |-> topicsCall.pageNum, ok |-> TRUE,
                      data |-> ListTopics(index, topicsCall.pageNum, Limit)]
    /\ catalogStable' = IF topicsCall.pageNum = 1 THEN TRUE ELSE catalogStable
    /\ UNCHANGED <<index, nextDocId, deleted, apiResult, outsideBrowser,
                   topics, topicsLoading, error, page, hasMore>>

\* The endpoint answers with an HTTP error status: response.ok is false.
ServeListTopicsError ==
    /\ topicsCall.state = "pending"
    /\ topicsCall' = [state |-> "resolved", pageNum |-> topicsCall.pageNum, ok |-> FALSE]
    /\ UNCHANGED <<backendVars, outsideBrowser, topics, topicsLoading, error, page, hasMore>>

\* fetch() rejects, or reading the body throws.
TopicsReject(err) ==
    /\ topicsCall.state = "pending"
    /\ topicsCall' = [state |-> "rejected", pageNum |-> topicsCall.pageNum, err |-> err]
    /\ UNCHANGED <<backendVars, outsideBrowser, topics, topicsLoading, error, page, hasMore>>

\* A fetchTopics that replaces the list on every page.
TopicsAfterPageReplacing(prev, pageNum, data) == data.topics

\* The topics fetchTopics sets for a page that arrived.
TopicsAfterPage(prev, pageNum, data) ==
    IF pageNum = 1 THEN data.topics ELSE prev \o data.topics

\* A fetchTopics without its finally block: loading is cleared on success only.
FetchTopicsSettledNoFinally ==
    /\ topicsCall.state \in {"resolved", "rejected"}
    /\ IF topicsCall.state = "resolved" /\ topicsCall.ok
       THEN /\ topics' = TopicsAfterPage(topics, topicsCall.pageNum, topicsCall.data)
            /\ hasMore' = topicsCall.data.has_more
            /\ page' = topicsCall.pageNum
            /\ topicsLoading' = FALSE
            /\ UNCHANGED error
       ELSE /\ error' = Some(IF topicsCall.state = "resolved" THEN HttpErrorText
                             ELSE IF topicsCall.err.isError THEN topicsCall.err.message
                             ELSE LoadErrorText)
            /\ UNCHANGED <<topics, hasMore, page, topicsLoading>>
    /\ topicsCall' = NoCall
    /\ UNCHANGED <<backendVars, outsideBrowser>>

\* A fetchTopics whose catch block also records the failed page as loaded.
FetchTopicsSettledAdvancing ==
    /\ topicsCall.state \in {"resolved", "rejected"}
    /\ IF topicsCall.state = "resolved" /\ topicsCall.ok
       THEN /\ topics' = TopicsAfterPage(topics, topicsCall.pageNum, topicsCall.data)
            /\ hasMore' = topicsCall.data.has_more
            /\ page' = topicsCall.pageNum
            /\ UNCHANGED error
       ELSE /\ error' = Some(IF topicsCall.state = "resolved" THEN HttpErrorText
                             ELSE IF topicsCall.err.isError THEN topicsCall.err.message
                             ELSE LoadErrorText)
            /\ page' = topicsCall.pageNum
            /\ UNCHANGED <<topics, hasMore>>
    /\ topicsLoading' = FALSE
    /\ topicsCall' = NoCall
    /\ UNCHANGED <<backendVars, outsideBrowser>>

\* fetchTopics after its await: try / catch / finally
FetchTopicsSettled ==
    /\ topicsCall.state \in {"resolved", "rejected"}
    /\ IF topicsCall.state = "resolved" /\ topicsCall.ok
       THEN /\ topics' = TopicsAfterPage(topics, topicsCall.pageNum, topicsCall.data)
            /\ hasMore' = topicsCall.data.has_more
            /\ page' = topicsCall.pageNum
            /\ UNCHANGED error
       ELSE /\ error' = Some(IF topicsCall.state = "resolved" THEN HttpErrorText
                             ELSE IF topicsCall.err.isError THEN topicsCall.err.message
                             ELSE LoadErrorText)
            /\ UNCHANGED <<topics, hasMore, page>>
    /\ topicsLoading' = FALSE
    /\ topicsCall' = NoCall
    /\ UNCHANGED <<backendVars, outsideBrowser>>

\* ----------------------------------------------------------- DocumentList
Document(id) == [id |-> id, filename |-> <<"doc", id>>]

\* The lists the documents endpoint can return.
DocumentLists ==
    {[i \in 1..n |-> Document(i)] : n \in 0..MaxListed}

\* useEffect(() => { fetchDocuments() }, []): fetchDocuments up to its await
MountDocumentList ==
    /\ fetchCall = Mounting
    /\ fetchCall' = [state |-> "pending"]
    /\ UNCHANGED <<documents, documentsLoading, deleteCalls, outsideList>>

\* The documents request settles: it resolves with a list, or is rejected.
FetchResolve(list) ==
    /\ fetchCall.state = "pending"
    /\ fetchCall' = [state |-> "resolved", documents |-> list]
    /\ UNCHANGED <<documents, documentsLoading, deleteCalls, outsideList>>

FetchReject ==
    /\ fetchCall.state = "pending"
    /\ fetchCall' = [state |-> "rejected"]
    /\ UNCHANGED <<documents, documentsLoading, deleteCalls, outsideList>>

\* fetchDocuments after its await: try / catch / finally
FetchDocumentsSettled ==
    /\ fetchCall.state \in {"resolved", "rejected"}
    /\ documents' = IF fetchCall.state = "resolved" THEN fetchCall.documents ELSE documents
    /\ documentsLoading' = FALSE
    /\ fetchCall' = NoCall
    /\ UNCHANGED <<deleteCalls, outsideList>>

\* deleteDocument(id) up to its await: the Delete button of a listed document
DeleteClick(id) ==
    /\ ~documentsLoading
    /\ \E i \in 1..Len(documents) : documents[i].id = id
    /\ Len(deleteCalls) < MaxDeletes
    /\ deleteCalls' = Append(deleteCalls, [id |-> id, state |-> "pending"])
    /\ UNCHANGED <<documents, documentsLoading, fetchCall, outsideList>>

\* The k-th delete request in flight settles.
DeleteSettle(k, outcome) ==
    /\ k \in 1..Len(deleteCalls)
    /\ deleteCalls[k].state = "pending"
    /\ deleteCalls' = [deleteCalls EXCEPT ![k].state = outcome]
    /\ UNCHANGED <<documents, documentsLoading, fetchCall, outsideList>>

RemoveAt(s, k) == SubSeq(s, 1, k - 1) \o SubSeq(s, k + 1, Len(s))

\* A deleteDocument that drops the list's first entry.
DocumentsAfterDeleteFirst(prev, call) ==
    IF call.state = "resolved" THEN Tail(prev) ELSE prev

\* A deleteDocument that filters the list as it was fetched (the list its
\* render closed over) instead of the current one.
DocumentsAfterDeleteStale(prev, call) ==
    IF call.state = "resolved"
    THEN LET fetched == [i \in 1..MaxListed |-> Document(i)]
         IN  SelectSeqBy(fetched, {doc \in Range(fetched) : doc.id # call.id})
    ELSE prev

\* The documents deleteDocument sets for a settled call:
\* setDocuments(prev => prev.filter(doc => doc.id !== id)) in the try branch
DocumentsAfterDelete(prev, call) ==
    IF call.state = "resolved"
    THEN SelectSeqBy(prev, {doc \in Range(prev) : doc.id # call.id})
    ELSE prev

\* deleteDocument after its await: try / catch
DeleteDocumentSettled(k) ==
    /\ k \in 1..Len(deleteCalls)
    /\ deleteCalls[k].state \in {"resolved", "rejected"}
    /\ documents' = DocumentsAfterDelete(documents, deleteCalls[k])
    /\ deleteCalls' = RemoveAt(deleteCalls, k)
    /\ UNCHANGED <<documentsLoading, fetchCall, outsideList>>

\* ------------------------------------------------- DocumentUpload (legacy)
LegacySuccessText == <<"Document uploaded successfully!">>

LegacyErrorText == <<"Error uploading document. Please try again.">>

\* The delay of handleUpload's setTimeout
MessageDelay == 3000

\* The file input's onChange: setFile(e.target.files?.[0] || null); the input
\* is disabled while uploading.
SetFile(f) ==
    /\ ~legacyUploading
    /\ legacyFile' = f
    /\ UNCHANGED <<now, legacyUploading, legacyMessage, legacyCall, messageTimers, outsideLegacy>>

\* handleUpload up to its await; the Upload button is disabled while uploading.
HandleUpload ==
    /\ ~legacyUploading
    /\ Len(messageTimers) < MaxTimers
    /\ IF legacyFile = Undefined
       THEN UNCHANGED <<legacyUploading, legacyMessage, legacyCall>>
       ELSE /\ legacyUploading' = TRUE
            /\ legacyMessage' = <<>>
            /\ legacyCall' = [state |-> "pending"]
    /\ UNCHANGED <<now, legacyFile, messageTimers, outsideLegacy>>

\* The upload request settles: it resolves or is rejected.
LegacyUploadSettle(outcome) ==
    /\ legacyCall.state = "pending"
    /\ legacyCall' = [state |-> outcome]
    /\ UNCHANGED <<now, legacyFile, legacyUploading, legacyMessage, messageTimers, outsideLegacy>>

\* handleUpload after its await: try / catch / finally. The try branch starts
\* the timer that clears the message.
HandleUploadSettled ==
    /\ legacyCall.state \in {"resolved", "rejected"}
    /\ IF legacyCall.state = "resolved"
       THEN /\ legacyMessage' = LegacySuccessText
            /\ legacyFile' = Undefined
            /\ messageTimers' = Append(messageTimers, MessageDelay)
       ELSE /\ legacyMessage' = LegacyErrorText
            /\ UNCHANGED <<legacyFile, messageTimers>>
    /\ legacyUploading' = FALSE
    /\ legacyCall' = NoCall
    /\ UNCHANGED <<now, outsideLegacy>>

\* The callback of handleUpload's setTimeout: () => setMessage('')
MessageTimerFires(i) ==
    /\ i \in 1..Len(messageTimers)
    /\ messageTimers[i] = 0
    /\ legacyMessage' = <<>>
    /\ messageTimers' = RemoveAt(messageTimers, i)
    /\ UNCHANGED <<now, legacyFile, legacyUploading, legacyCall, outsideLegacy>>

\* ----------------------------------------------------------------- timers
\* The time left on a timer after a step of the clock.
Remaining(t) == IF t > TimeStep THEN t - TimeStep ELSE 0

\* No setTimeout callback is waiting to run.
NoTimerDue ==
    /\ \A i \in 1..Len(toastTimers) : toastTimers[i] > 0
    /\ \A i \in 1..Len(messageTimers) : messageTimers[i] > 0

\* The clock advances by one step; a timer that is due runs before the clock
\* advances further.
TimePasses ==
    /\ now + TimeStep <= MaxTime
    /\ NoTimerDue
    /\ now' = now + TimeStep
    /\ toastTimers' = [i \in 1..Len(toastTimers) |-> Remaining(toastTimers[i])]
    /\ messageTimers' = [i \in 1..Len(messageTimers) |-> Remaining(messageTimers[i])]
    /\ UNCHANGED <<backendVars, chatVars, browserVars, listVars, pipelineVars,
                   uploading, uploadedDocs, toasts, uploadCall,
                   legacyFile, legacyUploading, legacyMessage, legacyCall>>

\* The callback of Toast's setTimeout: () => { onClose() }
ToastTimerFires(i) ==
    /\ i \in 1..Len(toasts)
    /\ toastTimers[i] = 0
    /\ CloseToast(toasts[i].id)

\* ------------------------------------------------------------------ init
\* The persisted index the front end starts against: empty, or one document.
InitialIndexes == {<<>>, <<Entry(0, 1, TRUE), Entry(0, 2, TRUE)>>}

Init ==
    /\ now = 0
    /\ index \in InitialIndexes
    /\ nextDocId = 1
    /\ input = <<>>
    /\ messages = <<>>
    /\ loading = FALSE
    /\ askCall = NoCall
    /\ deleted = {}
    /\ apiResult = NoResult
    /\ catalogStable = FALSE
    /\ uploading = FALSE
    /\ uploadedDocs = <<>>
    /\ toasts = <<>>
    /\ uploadCall = NoCall
    /\ topics = <<>>
    /\ topicsLoading = FALSE
    /\ error = Undefined
    /\ page = 1
    /\ hasMore = FALSE
    /\ topicsCall = Mounting
    /\ documents = <<>>
    /\ documentsLoading = TRUE
    /\ fetchCall = Mounting
    /\ deleteCalls = <<>>
    /\ toastTimers = <<>>
    /\ legacyFile = Undefined
    /\ legacyUploading = FALSE
    /\ legacyMessage = <<>>
    /\ legacyCall = NoCall
    /\ messageTimers = <<>>
    /\ job = IdleJob
    /\ batches = BatchesOf(index)
    /\ retrieval = NoRetrieval

NextChat ==
    \/ Tick
    \/ \E text \in InputTexts : SetInput(text)
    \/ HandleSubmit
    \/ AskResolve
    \/ AskReject
    \/ HandleSubmitSettled

SpecChat == Init /\ [][NextChat]_vars

\* File selection: every file the user can pick, against a server that
\* ingests one chunk or refuses the connection.
NextSelect ==
    \/ \E files \in {<<>>} \cup {<<f>> : f \in Files} : HandleFileSelect(files)
    \/ ServeUpload(1, {}, FALSE)
    \/ \E err \in {e \in UploadFailures : e.code = "ECONNREFUSED"} : UploadReject(err)
    \/ UploadFileSettled
    \/ \E t \in Range(toasts) : CloseToast(t.id)

SpecSelect == Init /\ [][NextSelect]_vars

\* The files picked in the upload specification.
UploadFiles ==
    { [name |-> <<"a", ".", "p", "d", "f">>, type |-> "application/pdf", size |-> 1],
      [name |-> <<"A", ".", "T", "X", "T">>, type |-> "", size |-> maxSize] }

\* Uploading: two files, against every outcome of the upload-doc request.
NextUpload ==
    \/ Tick
    \/ \E files \in {<<>>} \cup {<<f>> : f \in UploadFiles} : HandleFileSelect(files)
    \/ \E n \in 0..MaxChunks : \E failed \in FailedChoices(n) : ServeUpload(n, failed, FALSE)
    \/ \E err \in UploadFailures : UploadReject(err)
    \/ UploadFileSettled
    \/ \E t \in Range(toasts) : CloseToast(t.id)

SpecUpload == Init /\ [][NextUpload]_vars

\* The index through its API: small documents, queries and list pages.
NextIndex ==
    \/ \E n \in 1..MaxChunks : \E failed \in FailedChoices(n) : \E labelled \in BOOLEAN :
          IngestDocument(n, failed, labelled)
    \/ \E d \in 0..MaxDocs : DeleteDocument(d)
    \/ ApiAsk
    \/ \E pageNum \in 1..3 : \E limit \in 1..2 : ApiListTopics(pageNum, limit)

SpecIndex == Init /\ [][NextIndex]_vars

\* The file uploaded while browsing, and the sizes of the documents: one
\* chunk, a full page, a page and one more.
BrowseFiles ==
    {[name |-> <<"a", ".", "p", "d", "f">>, type |-> "application/pdf", size |-> 1]}

BrowseChunkCounts == {1, Limit, Limit + 1}

\* Browsing the catalog while documents are uploaded and deleted.
NextTopics ==
    \/ MountTopicBrowser
    \/ LoadMore
    \/ ServeListTopics
    \/ ServeListTopicsError
    \/ \E err \in TopicsFailures : TopicsReject(err)
    \/ FetchTopicsSettled
    \/ \E f \in BrowseFiles : HandleFileSelect(<<f>>)
    \/ \E n \in BrowseChunkCounts : ServeUpload(n, {}, TRUE)
    \/ UploadFileSettled
    \/ \E t \in Range(toasts) : CloseToast(t.id)
    \/ \E d \in 0..MaxDocs : DeleteDocument(d)

SpecTopics == Init /\ [][NextTopics]_vars

\* The document list: its fetch on mount and its deletes.
NextDocs ==
    \/ MountDocumentList
    \/ \E list \in DocumentLists : FetchResolve(list)
    \/ FetchReject
    \/ FetchDocumentsSettled
    \/ \E id \in 1..MaxListed : DeleteClick(id)
    \/ \E k \in 1..MaxDeletes : \E outcome \in {"resolved", "rejected"} : DeleteSettle(k, outcome)
    \/ \E k \in 1..MaxDeletes : DeleteDocumentSettled(k)

SpecDocs == Init /\ [][NextDocs]_vars

\* Ingestion step by step, with readers of the index running in between.
NextIngest ==
    \/ \E d \in 0..1 : \E n \in 0..MaxChunks : StartIngest(d, n, TRUE)
    \/ \E c \in 1..MaxChunks : \E ok \in BOOLEAN : EmbedAttempt(c, ok)
    \/ EmbeddingDone
    \/ StageEntry
    \/ CommitBatch
    \/ ApiAsk
    \/ ApiListTopics(1, Limit)

SpecIngest == Init /\ [][NextIngest]_vars

\* Questions retrieved while documents are ingested and deleted.
NextRetrieve ==
    \/ \E n \in 1..MaxChunks : \E failed \in FailedChoices(n) : \E labelled \in BOOLEAN :
          IngestDocument(n, failed, labelled)
    \/ \E d \in 0..MaxDocs : DeleteDocument(d)
    \/ \E question \in Questions : Retrieve(question)

SpecRetrieve == Init /\ [][NextRetrieve]_vars

\* The four components side by side, one question and one upload each; the
\* continuation of an await runs once its promise has settled.
NextFlags ==
    \/ SetInput(<<"q">>)
    \/ (messages = <<>> /\ HandleSubmit)
    \/ AskResolve
    \/ AskReject
    \/ HandleSubmitSettled
    \/ (toasts = <<>> /\ \E f \in BrowseFiles : HandleFileSelect(<<f>>))
    \/ ServeUpload(1, {}, FALSE)
    \/ \E err \in UploadFailures : UploadReject(err)
    \/ UploadFileSettled
    \/ MountTopicBrowser
    \/ LoadMore
    \/ ServeListTopics
    \/ ServeListTopicsError
    \/ \E err \in TopicsFailures : TopicsReject(err)
    \/ FetchTopicsSettled
    \/ MountDocumentList
    \/ \E list \in DocumentLists : FetchResolve(list)
    \/ FetchReject
    \/ FetchDocumentsSettled

SpecFlags ==
    /\ Init
    /\ [][NextFlags]_vars
    /\ WF_vars(HandleSubmitSettled)
    /\ WF_vars(UploadFileSettled)
    /\ WF_vars(FetchTopicsSettled)
    /\ WF_vars(FetchDocumentsSettled)

\* The files picked while toasts are displayed: one is uploaded, one rejected.
ToastFiles ==
    { [name |-> <<"a", ".", "p", "d", "f">>, type |-> "application/pdf", size |-> 1],
      [name |-> <<"n", ".", "m", "d">>, type |-> "image/png", size |-> 1] }

\* Toasts over time: files are picked and uploaded while the clock runs and
\* the toasts' timers count down. A timer that is due runs before the next
\* user event or response is handled.
NextToasts ==
    \/ TimePasses
    \/ NoTimerDue /\ \E f \in ToastFiles : HandleFileSelect(<<f>>)
    \/ NoTimerDue /\ ServeUpload(1, {}, FALSE)
    \/ NoTimerDue /\ \E err \in {e \in UploadFailures : e.code = "ECONNREFUSED"} : UploadReject(err)
    \/ NoTimerDue /\ UploadFileSettled
    \/ NoTimerDue /\ \E t \in Range(toasts) : CloseToast(t.id)
    \/ \E i \in 1..MaxToasts : ToastTimerFires(i)

SpecToasts == Init /\ [][NextToasts]_vars

\* The legacy DocumentUpload over time. A timer that is due runs before the
\* next user event or response is handled.
NextLegacy ==
    \/ TimePasses
    \/ NoTimerDue /\ \E f \in {Undefined, Some(<<"n", ".", "m", "d">>)} : SetFile(f)
    \/ NoTimerDue /\ HandleUpload
    \/ NoTimerDue /\ \E outcome \in {"resolved", "rejected"} : LegacyUploadSettle(outcome)
    \/ NoTimerDue /\ HandleUploadSettled
    \/ \E i \in 1..MaxTimers : MessageTimerFires(i)

SpecLegacy == Init /\ [][NextLegacy]_vars

\* ----------------------------------------------------------------- claims
IsAppend(new, old) == Len(new) = Len(old) + 1 /\ SubSeq(new, 1, Len(old)) = old

\* TopicBrowser is at rest: mounted, no request in flight.
BrowserIdle == topicsCall = NoCall /\ ~topicsLoading

\* C1: while the index does not change after page 1 was served, the topics
\* TopicBrowser has accumulated after loading pages 1..page (limit 50 each)
\* are the first page*50 entries of the complete unpaginated listing, in
\* insertion order and without duplicates; hasMore is false exactly when
\* page is the final page, and then topics is the complete listing.
C1_PagesAccumulateToFullListing ==
    (catalogStable /\ BrowserIdle) =>
        LET full == FullListing(index)
            loaded == IF page * 50 < Len(full) THEN page * 50 ELSE Len(full)
        IN  /\ topics = SubSeq(full, 1, loaded)
            /\ \A i, j \in 1..Len(topics) : i # j => topics[i] # topics[j]
            /\ hasMore = (page * 50 < Len(full))
            /\ (page > 1 => (page - 1) * 50 < Len(full))
            /\ (~hasMore => topics = full)

C1_Witness ==
    /\ catalogStable
    /\ BrowserIdle
    /\ page = 3
    /\ ~hasMore
    /\ Len(topics) = 101
    /\ topics = FullListing(index)

\* C4: no query result and no list_topics page returned after
\* delete_document(d) has completed contains an entry of document d.
C4_NoStaleReadAfterDelete ==
    apiResult.op \in {"ask", "list"} =>
        \A i \in 1..Len(apiResult.items) :
            apiResult.items[i].preview[1] \notin apiResult.deletedBefore

C4_Witness ==
    /\ apiResult.op = "list"
    /\ Len(apiResult.items) = 2
    /\ apiResult.deletedBefore # {}
    /\ \E d \in apiResult.deletedBefore : d > 0

\* C5: the topic catalog shown reflects index changes: once TopicBrowser and
\* DocumentUploader are at rest, every topic displayed is an entry of the
\* index (none of a removed document), and when there is no more to load
\* all indexed topics are displayed.
C5_DisplayedTopicsReflectIndex ==
    (BrowserIdle /\ uploadCall = NoCall /\ error = Undefined) =>
        /\ \A i \in 1..Len(topics) : topics[i] \in Range(FullListing(index))
        /\ (~hasMore => topics = FullListing(index))

\* The k-th delete call's continuation runs in this step.
DeleteSettlesAt(k) ==
    /\ k \in 1..Len(deleteCalls)
    /\ deleteCalls[k].state \in {"resolved", "rejected"}
    /\ deleteCalls' = RemoveAt(deleteCalls, k)

\* The list without the entries of this id, the others in their order.
WithoutId(list, id) == SelectSeq(list, LAMBDA doc : doc.id # id)

\* C10 as stated: deleting document id changes the displayed list if and
\* only if the delete request succeeded: on success exactly the entries with
\* that id are removed and all others keep their order; on failure the list
\* is unchanged.
C10_ListChangesIffDeleteSucceeded ==
    [][\A k \in 1..MaxDeletes + 1 :
          DeleteSettlesAt(k) =>
              /\ (documents' # documents <=> deleteCalls[k].state = "resolved")
              /\ (deleteCalls[k].state = "resolved"
                    => documents' = WithoutId(documents, deleteCalls[k].id))
              /\ (deleteCalls[k].state = "rejected" => documents' = documents)]_vars

\* C10 amended: deleting document id changes the displayed list only if the
\* delete request succeeded, and does change it when the request succeeded
\* and the document is still listed: on success exactly the entries with
\* that id are removed (none when an earlier delete has removed it already)
\* and all others keep their order; on failure the list is unchanged.
C10_ListChangesOnlyIfDeleteSucceeded ==
    [][\A k \in 1..MaxDeletes + 1 :
          DeleteSettlesAt(k) =>
              /\ (documents' # documents => deleteCalls[k].state = "resolved")
              /\ ((/\ deleteCalls[k].state = "resolved"
                   /\ \E i \in 1..Len(documents) : documents[i].id = deleteCalls[k].id)
                    => documents' # documents)
              /\ (deleteCalls[k].state = "resolved"
                    => documents' = WithoutId(documents, deleteCalls[k].id))
              /\ (deleteCalls[k].state = "rejected" => documents' = documents)]_vars

\* Document 2 was deleted from the list of three, and a second successful
\* delete of the same document is about to settle.
C10_Witness ==
    /\ documents = <<Document(1), Document(3)>>
    /\ deleteCalls = <<[id |-> 2, state |-> "resolved"]>>

\* handleSubmit's continuation runs in this step.
AskSettles == askCall.state \in {"resolved", "rejected"} /\ askCall' = NoCall

\* C2: whenever the ask request fails (HTTP error status, connection refused,
\* any other rejection), ChatBox appends one ai message whose content is one of
\* its three fixed error texts and which carries no sources, so no sources
\* block is shown for it.
C2_FailedAskShowsErrorText ==
    [][(AskSettles /\ askCall.state = "rejected") =>
          /\ IsAppend(messages', messages)
          /\ Last(messages').type = "ai"
          /\ Last(messages').content \in ErrorTexts
          /\ Last(messages').sources = Undefined
          /\ ~ShowsSources(Last(messages'))]_vars

C2_Witness ==
    /\ Len(messages) = 4
    /\ messages[2].content = ServerErrorText
    /\ messages[4].content = OtherErrorText
    /\ askCall = NoCall

\* C3: when nothing relevant is found the ask request resolves with an empty
\* sources list, and ChatBox appends an ai message whose content is the
\* returned answer unchanged and whose sources list is defined and empty: no
\* sources block is shown and the content is none of the error texts.
C3_EmptySourcesIsAnAnswer ==
    [][(AskSettles /\ askCall.state = "resolved" /\ askCall.data.sources = <<>>) =>
          /\ askCall.data.answer = NoRelevantAnswer
          /\ IsAppend(messages', messages)
          /\ Last(messages').type = "ai"
          /\ Last(messages').content = askCall.data.answer
          /\ Last(messages').sources = Some(<<>>)
          /\ ~ShowsSources(Last(messages'))
          /\ Last(messages').content \notin ErrorTexts]_vars

C3_Witness ==
    /\ Len(messages) = 2
    /\ messages[2].type = "ai"
    /\ messages[2].content = NoRelevantAnswer
    /\ messages[2].sources = Some(<<>>)
    /\ Len(index) > 0

\* The name, lower-cased, ends with the extension.
EndsWith(name, ext) ==
    /\ Len(name) >= Len(ext)
    /\ SubSeq(toLowerCase(name), Len(name) - Len(ext) + 1, Len(name)) = ext

HasPdfOrTxtExtension(file) ==
    \/ EndsWith(file.name, <<".", "p", "d", "f">>)
    \/ EndsWith(file.name, <<".", "t", "x", "t">>)

\* The step rejects the selected file with this toast text and sends nothing.
RejectedWith(text) ==
    /\ toasts' = Append(toasts, [id |-> now, message |-> text, type |-> "error"])
    /\ UNCHANGED <<uploading, uploadedDocs, uploadCall>>

C7_SizeRejectedIffTooLarge ==
    [][\A f \in Files :
          HandleFileSelect(<<f>>)
              => (f.size > 10485760 <=> RejectedWith(SizeErrorText))]_vars

\* C7 amended: a selected file that passes the type validation is rejected
\* for size exactly when its size exceeds 10*1024*1024 bytes; the rejected
\* file gets the size toast, no request is sent, uploading and uploadedDocs
\* are unchanged.
C7_TypeAcceptedSizeRejectedIffTooLarge ==
    [][\A f \in Files :
          (/\ HandleFileSelect(<<f>>)
           /\ (f.type \in {"application/pdf", "text/plain"} \/ HasPdfOrTxtExtension(f)))
              => (f.size > 10485760 <=> RejectedWith(SizeErrorText))]_vars

C7_Witness ==
    /\ toasts # <<>>
    /\ Last(toasts).message = SizeErrorText
    /\ uploadCall = NoCall
    /\ ~uploading

\* uploadFile's continuation runs in this step.
UploadSettles == uploadCall.state \in {"resolved", "rejected"} /\ uploadCall' = NoCall

\* C8: every upload request ends with exactly one toast: a success toast and
\* one new uploadedDocs entry if and only if the request succeeded, otherwise
\* an error toast with uploadedDocs unchanged.
C8_OneToastPerUpload ==
    [][UploadSettles =>
          /\ IsAppend(toasts', toasts)
          /\ IF uploadCall.state = "resolved"
             THEN /\ Last(toasts').type = "success"
                  /\ IsAppend(uploadedDocs', uploadedDocs)
                  /\ Last(uploadedDocs').id = uploadCall.data.document_id
             ELSE /\ Last(toasts').type = "error"
                  /\ uploadedDocs' = uploadedDocs]_vars

C8_Witness ==
    /\ Len(toasts) = 2
    /\ toasts[1].type = "error"
    /\ toasts[1].message = UploadFailedText
    /\ toasts[2].type = "success"
    /\ Len(uploadedDocs) = 1
    /\ uploadCall = NoCall

\* C9: when an ingest succeeds but some chunks failed to embed
\* (chunks_failed > 0), the toast shown is a partial-ingestion warning that
\* gives the failure count, not a plain success notice.
C9_PartialIngestionWarned ==
    [][(UploadSettles /\ uploadCall.state = "resolved" /\ uploadCall.data.chunks_failed > 0) =>
          /\ Last(toasts').type # "success"
          /\ ToString(uploadCall.data.chunks_failed) \in Range(Last(toasts').message)]_vars

\* C11: the messages list of ChatBox is append-only: in every step every
\* earlier message is still present, unmodified and at the same position,
\* whatever is submitted and however the requests end.
C11_MessagesAppendOnly ==
    [][/\ Len(messages') >= Len(messages)
       /\ SubSeq(messages', 1, Len(messages)) = messages]_vars

\* A conversation of two questions, the first answered, the second failed.
C11_Witness ==
    /\ Len(messages) = 4
    /\ messages[1].type = "user"
    /\ messages[2].content = GroundedAnswer
    /\ messages[4].content = ConnectErrorText
    /\ askCall = NoCall

\* C12: each accepted submission sends exactly one ask request (a request
\* becomes pending exactly in the step that appends the user message, and
\* only when none is in flight), and after a request has failed no request
\* is sent until the user submits again.
C12_OneRequestPerSubmission ==
    [][/\ (askCall' # askCall /\ askCall'.state = "pending") =>
              /\ askCall = NoCall
              /\ IsAppend(messages', messages)
              /\ Last(messages').type = "user"
              /\ askCall'.question = Last(messages').content
       /\ (IsAppend(messages', messages) /\ Last(messages').type = "user") =>
              (askCall = NoCall /\ askCall'.state = "pending")
       /\ (askCall.state = "rejected" => askCall'.state # "pending")]_vars

\* A failed request has been reported and nothing is in flight.
C12_Witness ==
    /\ Len(messages) = 2
    /\ messages[2].content = ConnectErrorText
    /\ askCall = NoCall
    /\ ~loading

\* The upload requests that have succeeded and whose continuation has run:
\* every success generates one document id, and a resolved call whose
\* continuation has not run yet is still in flight.
SucceededUploads ==
    (nextDocId - 1) - (IF uploadCall.state = "resolved" THEN 1 ELSE 0)

\* C13: the document counter (uploadedDocs.length) always equals the number
\* of upload requests that have succeeded since the component mounted:
\* uploadedDocs grows by exactly one entry when a successful upload settles,
\* and is unchanged by every other step (a failed request, a file rejected by
\* the validation, a closed toast), so it never shrinks.
C13_CounterCountsSuccessfulUploads ==
    /\ [](Len(uploadedDocs) = SucceededUploads)
    /\ [][IF UploadSettles /\ uploadCall.state = "resolved"
          THEN IsAppend(uploadedDocs', uploadedDocs)
          ELSE uploadedDocs' = uploadedDocs]_vars

\* Two uploads succeeded, their toasts were closed, then one upload failed.
C13_Witness ==
    /\ Len(uploadedDocs) = 2
    /\ Len(toasts) = 1
    /\ toasts[1].message = UploadFailedText
    /\ uploadCall = NoCall

\* C14: re-ingesting an updated version of a document removes the previous
\* chunk set: once the re-ingestion has completed, every index entry of that
\* document id belongs to the new version, and at no time does the index hold
\* an entry of a version older than the newest committed one.
C14_ReingestLeavesNoOldEntries ==
    /\ \A i \in 1..Len(index) : index[i].version = LatestVersion(index[i].doc)
    /\ job.state = "done" =>
          /\ \A i \in 1..Len(index) :
                index[i].doc = job.doc => index[i].version = job.version
          /\ {index[i].chunk : i \in {k \in 1..Len(index) : index[k].doc = job.doc}}
                = job.embedded

\* Version 1 of document 0 had chunks 1 and 2; version 2, with chunk 1 only,
\* has been ingested.
C14_Witness ==
    /\ job.state = "done"
    /\ job.doc = 0
    /\ job.version = 2
    /\ job.embedded = {1}
    /\ [doc |-> 0, version |-> 1, chunks |-> {1, 2}] \in batches
    /\ \E i \in 1..Len(index) : index[i].doc = 0

\* C15: each chunk's embedding is attempted at most 3 times; a chunk is
\* excluded exactly when 3 attempts have failed, and is then counted as
\* failed; the embedded sibling chunks are all indexed, so chunks_indexed +
\* chunks_failed equals the number of chunks produced.
C15_BoundedAttemptsPerChunk ==
    /\ job.state \in {"embedding", "upserting", "done"} =>
          /\ \A c \in 1..job.n : job.attempts[c] <= 3
          /\ \A c \in job.failed : job.attempts[c] = 3
          /\ job.embedded \cap job.failed = {}
    /\ job.state = "done" =>
          /\ job.embedded \cup job.failed = 1..job.n
          /\ job.result.chunks_failed = Cardinality(job.failed)
          /\ job.result.chunks_indexed + job.result.chunks_failed = job.n
          /\ \A c \in job.embedded :
                \E i \in 1..Len(index) : index[i].doc = job.doc /\ index[i].chunk = c
          /\ \A c \in job.failed :
                ~\E i \in 1..Len(index) : index[i].doc = job.doc /\ index[i].chunk = c

\* Chunk 1 was embedded at its second attempt, chunk 2 failed three times.
C15_Witness ==
    /\ job.state = "done"
    /\ job.n = 2
    /\ job.attempts[1] = 2
    /\ job.attempts[2] = 3
    /\ job.embedded = {1}
    /\ job.failed = {2}
    /\ job.result.chunks_failed = 1

\* The chunk ids a reader of this listing sees for document d.
ChunksListed(listing, d) ==
    {listing[i].preview[2] : i \in {k \in 1..Len(listing) : listing[k].preview[1] = d}}

\* The chunk sets of the batches committed for document d.
CommittedChunkSets(d) == {b.chunks : b \in {x \in batches : x.doc = d}}

\* C17: a reader never observes a half-written batch: at every moment the
\* unpaginated listing shows, for each document, none of its entries or the
\* whole chunk set of one committed batch, each entry once; every source a
\* query can return belongs to a committed batch of the version in the index;
\* and nothing of the batch being written is visible before its commit.
C17_UpsertAtomicToReaders ==
    LET listing == ListTopics(index, 1, Len(index) + 1).topics
    IN  /\ \A d \in 0..MaxDocs :
              ChunksListed(listing, d) \in {{}} \cup CommittedChunkSets(d)
        /\ \A i, j \in 1..Len(listing) : i # j => listing[i] # listing[j]
        /\ \A srcs \in RetrievedSources(index) : \A i \in 1..Len(srcs) :
              \E b \in batches :
                 /\ b.doc = srcs[i].preview[1]
                 /\ srcs[i].preview[2] \in b.chunks
                 /\ ChunksListed(listing, b.doc) = b.chunks
        /\ job.state = "upserting" =>
              \A i \in 1..Len(index) :
                 ~(index[i].doc = job.doc /\ index[i].version = job.version)

\* A list was read while one of the two entries of a batch was written.
C17_Witness ==
    /\ job.state = "upserting"
    /\ job.embedded = {1, 2}
    /\ Len(job.staged) = 1
    /\ job.version = 2
    /\ apiResult.op = "list"
    /\ Len(apiResult.items) = 2

\* The questions that match the topic-marker pattern, with the topic asked.
TopicQuestions ==
    { [question |-> <<"T", "o", "p", "i", "c", " ", "1", "-", "1">>, topic |-> <<1, 1>>],
      [question |-> <<"t", "o", "p", "i", "c", " ", "1", "-", "2">>, topic |-> <<1, 2>>],
      [question |-> <<"T", "O", "P", "I", "C", " ", "1", "-", "3", ":", " ", "x">>,
       topic |-> <<1, 3>>] }

\* C16: a question that matches the topic-marker pattern (in any letter case)
\* is answered in the EXACT_LOOKUP state: no embedding call is made, every
\* returned chunk carries the asked topic label and the maximal score 100;
\* a question that does not match is answered by SEMANTIC_SEARCH.
C16_TopicQuestionIsExactLookup ==
    retrieval.state # "NONE" =>
        /\ \A q \in TopicQuestions :
              retrieval.question = q.question =>
                 /\ retrieval.state = "EXACT_LOOKUP"
                 /\ retrieval.embedCalls = 0
                 /\ \A i \in 1..Len(retrieval.results) :
                       /\ retrieval.results[i].entry.topic = Some(q.topic)
                       /\ retrieval.results[i].score = 100
        /\ (\A q \in TopicQuestions : retrieval.question # q.question) =>
              retrieval.state = "SEMANTIC_SEARCH"

\* "topic 1-2", asked in lower case, returned the Topic 1-2 chunks of two
\* documents.
C16_Witness ==
    /\ retrieval.state = "EXACT_LOOKUP"
    /\ retrieval.question = <<"t", "o", "p", "i", "c", " ", "1", "-", "2">>
    /\ Len(retrieval.results) = 2
    /\ retrieval.results[1].entry.doc < retrieval.results[2].entry.doc

\* C18: no request flag is left stuck: once the request that set
\* ChatBox.loading, DocumentUploader.uploading, TopicBrowser.loading or
\* DocumentList.loading has settled (resolved or rejected), the flag becomes
\* false and the component is idle again.
C18_FlagsClearedAfterSettle ==
    /\ (askCall.state \in {"resolved", "rejected"}) ~> (~loading /\ askCall = NoCall)
    /\ (uploadCall.state \in {"resolved", "rejected"}) ~> (~uploading /\ uploadCall = NoCall)
    /\ (topicsCall.state \in {"resolved", "rejected"}) ~> (~topicsLoading /\ topicsCall = NoCall)
    /\ (fetchCall.state \in {"resolved", "rejected"}) ~> (~documentsLoading /\ fetchCall = NoCall)

\* Each component has run one request, three of them failed, and all four
\* flags are false again.
C18_Witness ==
    /\ Len(messages) = 2 /\ messages[2].content = OtherErrorText /\ ~loading
    /\ Len(toasts) = 1 /\ toasts[1].message = UploadConnectErrorText /\ ~uploading
    /\ error = Some(HttpErrorText) /\ ~topicsLoading /\ topicsCall = NoCall
    /\ fetchCall = NoCall /\ ~documentsLoading /\ Len(documents) = MaxListed

\* The input is empty or holds white space only.
BlankInput == \A i \in 1..Len(input) : input[i] \in {" ", "\t"}

\* C19: while loading is true, or while the input is empty or white space
\* only, no step appends a user message, sends a request or sets loading, and
\* a submission leaves input, messages and loading unchanged; a request is
\* sent only when none is in flight.
C19_GuardedSubmission ==
    [][/\ (loading \/ BlankInput) =>
             /\ ~(IsAppend(messages', messages) /\ Last(messages').type = "user")
             /\ ~(askCall' # askCall /\ askCall'.state = "pending")
             /\ (loading' => loading)
             /\ (HandleSubmit => UNCHANGED <<input, messages, loading, askCall>>)
       /\ (askCall' # askCall /\ askCall'.state = "pending") => askCall = NoCall]_vars

\* The second question is in flight: a submission now is made while loading.
C19_Witness ==
    /\ loading
    /\ askCall.state = "pending"
    /\ Len(messages) = 3
    /\ input = <<>>

\* C20: the messages list alternates user, ai, user, ai, ... starting with a
\* user message; it ends with an unanswered user message exactly when loading
\* is true; every ai message is the answer of a response or an error text.
C20_MessagesAlternate ==
    /\ \A i \in 1..Len(messages) :
          messages[i].type = IF i % 2 = 1 THEN "user" ELSE "ai"
    /\ (Len(messages) % 2 = 1) <=> loading
    /\ \A i \in 1..Len(messages) :
          i % 2 = 0 => messages[i].content \in ErrorTexts \cup {NoRelevantAnswer, GroundedAnswer}

\* Two questions, one answered without sources and one failed.
C20_Witness ==
    /\ Len(messages) = 4
    /\ ~loading
    /\ messages[2].content = NoRelevantAnswer
    /\ messages[4].content = ServerErrorText

\* C21: all messages of ChatBox have pairwise distinct ids, including a user
\* message and the ai reply appended for it.
C21_MessageIdsDistinct ==
    \A i, j \in 1..Len(messages) : i # j => messages[i].id # messages[j].id

\* The step closes a toast: its onClose runs for a toast that is displayed.
ToastCloses == \E t \in Range(toasts) : CloseToast(t.id)

\* C22: closing a toast removes exactly that toast: the list afterwards is the
\* list before without one element, every other toast staying displayed in
\* the same order.
C22_CloseRemovesExactlyOneToast ==
    [][ToastCloses => \E k \in 1..Len(toasts) : toasts' = RemoveAt(toasts, k)]_vars

\* The step is the continuation of a fetchTopics whose request failed: an
\* HTTP error status, a rejected fetch or an unreadable body.
FailedFetchSettles ==
    /\ \/ topicsCall.state = "rejected"
       \/ topicsCall.state = "resolved" /\ ~topicsCall.ok
    /\ topicsCall' = NoCall

\* What a failed fetchTopics leaves alone and what it sets.
FailedFetchFrame ==
    /\ UNCHANGED <<topics, page, hasMore>>
    /\ error' # Undefined
    /\ ~topicsLoading'

\* C24 as stated: a failed fetchTopics(n) changes nothing but error and
\* loading, so that the next loadMore requests page n again, for every n.
C24_FailedFetchRetriedByLoadMore ==
    [][FailedFetchSettles =>
         /\ FailedFetchFrame
         /\ hasMore' /\ page' + 1 = topicsCall.pageNum]_vars

\* C24: a failed fetchTopics(n) leaves topics, page and hasMore as they were,
\* sets error and clears loading; for n > 1 the next loadMore requests page n
\* again, and for the first page (n = 1) hasMore is still false, so loadMore
\* requests nothing.
C24_FailedFetchChangesOnlyError ==
    [][FailedFetchSettles =>
         /\ FailedFetchFrame
         /\ IF topicsCall.pageNum > 1
            THEN hasMore' /\ page' + 1 = topicsCall.pageNum
            ELSE ~hasMore' /\ page' = 1]_vars

\* The second page has failed after the first one was loaded.
C24_Witness ==
    /\ topicsCall = NoCall
    /\ ~topicsLoading
    /\ error = Some(HttpErrorText)
    /\ page = 1
    /\ hasMore
    /\ Len(topics) = Limit

\* TopicBrowser renders its empty state: no topics, not loading, and an error
\* that is null or the empty string.
EmptyStateShown ==
    /\ Len(topics) = 0
    /\ ~topicsLoading
    /\ (error = Undefined \/ error = Some(<<>>))

\* C25: the empty state is shown only when a list-topics fetch has completed
\* successfully with zero topics: never before the first fetch has finished
\* and never while a fetch is in flight (after a failed fetch error is set,
\* which hides it).
C25_EmptyStateOnlyAfterEmptyFetch ==
    EmptyStateShown => topicsCall = NoCall

\* DocumentList renders 'No documents uploaded yet'.
NoDocumentsShown == ~documentsLoading /\ Len(documents) = 0

\* C26: 'No documents uploaded yet' is shown only when the server's document
\* list is empty: when fetchDocuments settles, the text appears only for a
\* request that succeeded with an empty list, and not for a failed request.
C26_NoDocumentsOnlyForEmptyList ==
    [][(fetchCall.state \in {"resolved", "rejected"} /\ fetchCall' = NoCall
        /\ NoDocumentsShown')
       => (fetchCall.state = "resolved" /\ fetchCall.documents = <<>>)]_vars

\* C27: concurrent deletes do not lose updates: a successful delete that
\* settles while requests for other documents are or were in flight removes
\* its own document and nothing else, keeps the other documents in their
\* order, and never brings back a document that another delete has removed.
C27_ConcurrentDeletesLoseNothing ==
    [][\A k \in 1..MaxDeletes :
         (DeleteSettlesAt(k) /\ deleteCalls[k].state = "resolved") =>
            /\ Range(documents') \subseteq Range(documents)
            /\ \A doc \in Range(documents) :
                 doc \in Range(documents') <=> doc.id # deleteCalls[k].id
            /\ documents' = SelectSeq(documents, LAMBDA doc : doc \in Range(documents'))]_vars

\* Of three listed documents the first has been removed and the delete of
\* the third has succeeded and is about to update the list.
C27_Witness ==
    /\ documents = <<Document(2), Document(3)>>
    /\ deleteCalls = <<[id |-> 3, state |-> "resolved"]>>

\* C23: the timer of a displayed toast calls onClose once duration has
\* elapsed since the toast was shown, also when DocumentUploader re-renders
\* in between: no toast is displayed for longer than duration. (A toast's id
\* is the clock value at which it was added.)
C23_ToastClosedAfterDuration ==
    \A i \in 1..Len(toasts) : now - toasts[i].id <= duration

\* C28: the timer of a successful upload clears only that upload's success
\* message: the error message of a later attempt stays displayed until the
\* next attempt starts.
C28_ErrorMessageStaysUntilNextAttempt ==
    [][(legacyMessage = LegacyErrorText /\ legacyMessage' # legacyMessage)
       => (~legacyUploading /\ legacyUploading')]_vars

====
